---- MODULE Spec2Model ----
(***************************************************************************)
(* Model of medlegal-llm:                                                  *)
(*   - OllamaManager (src/src/utils/ollama_manager.py): supervision of the *)
(*     local inference daemon (start / stop / get_installed_models);       *)
(*   - IndexBuilder (src/src/core/index_builder.py): the persisted, named  *)
(*     index cache;                                                        *)
(*   - QueryHandler (src/src/core/query_handler.py): query engines over an *)
(*     index and the execution of a query;                                 *)
(*   - the legacy script (src/main.py): start_ollama / stop_ollama on a    *)
(*     global process handle;                                              *)
(*   - PDFQueryApp (src/src/ui/app.py): the Streamlit session that calls   *)
(*     the components, one script run per event of the user interface;     *)
(*   - VectorStore (src/src/db/vector_store.py): the Chroma store and its  *)
(*     embedding model.                                                    *)
(* The daemon, the operating system and the llama_index / langchain /      *)
(* requests / psutil libraries are the environment: their outcomes are     *)
(* chosen nondeterministically among the outcomes they can produce.        *)
(***************************************************************************)
EXTENDS Integers, Sequences, FiniteSets, TLC

(* ---------------------------------------------------------------------- *)
(* Bounds and program constants                                            *)
(* ---------------------------------------------------------------------- *)

\* number of daemon processes the operating system lets the manager spawn
MaxProc == 2

\* range(10) in OllamaManager.start: probes of the polling window
PollWindow == 10

Pids == 1..MaxProc

\* answers of the daemon endpoint to requests.get(host), which has no timeout:
\*   up     200 and "Ollama is running" in the body
\*   wrong  an answer that is not the daemon's (other status or body)
\*   down   connection refused (requests.exceptions.ConnectionError)
\*   error  a requests exception that is not a ConnectionError
\*   hung   the connection is accepted and never answered
Endpoints == {"up", "wrong", "down", "error", "hung"}

\* exceptions psutil raises while stop() looks the daemon up and signals it
PsutilErrors == {"psutil.NoSuchProcess", "psutil.AccessDenied"}

VARIABLES
  ollama_process,      \* self.ollama_process: 0 is None, else the pid of the Popen
  atexit_registered,   \* self._atexit_registered
  hooks,               \* entries atexit.register(self.stop) has made so far
  spawnErr,            \* exception Popen raised in the current / last start() call
  proc,                \* pid -> "unspawned" | "running" | "exited"
  child,               \* pid -> descendant of that daemon: "none" | "running"
  endpoint,            \* what the daemon endpoint answers now
  pc,                  \* position of the thread that calls the manager; "gone"
                       \* once the interpreter has exited
  caller,              \* "none" | "start" | "stop" | "models" | "atexit": the call
                       \* in progress
  polls,               \* failed probes of the polling window so far
  spawned,             \* pid spawned by the current / last start() call, 0 if none
  handle0,             \* handle held when the current / last start() call began
  status,              \* what the last start() call returned ("pending" while it runs)
  stopRes,             \* how the last stop() call since that start() ended
  modelsRes,           \* how the last get_installed_models() call ended
  sigLog,              \* events of the stop() run in progress, or of the last one
                       \* since the last start() call began
  priorOK              \* a stop() run before the current one, since the last spawn,
                       \* saw the daemon exit within its grace wait

VARIABLES
  disk,                \* index name -> file -> persisted content, or "absent"
  ipc,                 \* caller -> position inside the call it makes
  iname,               \* caller -> index_name of its call
  todo,                \* caller -> documents of its call not processed yet
  mem,                 \* caller -> the index object it holds in memory
  written,             \* caller -> files its persist() has written so far
  result,              \* caller -> outcome of its last call
  embeds,              \* documents handed to the embedding backend so far
  hasdocs,             \* caller -> the documents argument of its call is truthy
  failedAt,            \* caller -> position where its call met the exception that
                       \* line 47 caught, "none" if it met none
  root                 \* the persistence root directory exists

VARIABLES
  qpc,                 \* position of the thread that calls the query handler
  qcall,               \* the engine method called last: "none" | "vector" | "summary"
  qindex,              \* the index argument of the engine call is truthy
  topK,                \* similarity_top_k of the engine call
  widen,               \* use_hybrid_search of the engine call
  tried,               \* as_retriever calls of the engine call, with their outcome
  retriever,           \* similarity_top_k of the retriever the call holds, 0 if none
  engine,              \* what the last engine call returned
  engineRes,           \* how the last engine call ended
  qengine,             \* the query_engine argument of the query_index call
  qtext,               \* the query_text argument of the query_index call
  backend,             \* outcomes of query_engine.query during that call
  answer               \* what that call returned

qvars == <<qpc, qcall, qindex, topK, widen, tried, retriever, engine, engineRes,
           qengine, qtext, backend, answer>>

ivars == <<disk, ipc, iname, todo, mem, written, result, embeds, hasdocs,
          failedAt, root>>

mvars == <<ollama_process, atexit_registered, hooks, spawnErr, proc, child, endpoint, pc, caller,
           polls, spawned, handle0, status, stopRes, modelsRes, sigLog, priorOK>>

VARIABLES
  g_process,           \* the global ollama_process of main.py: 0 is None, 1 the Popen
  lproc,               \* the process of that Popen: "unspawned" | "running" |
                       \* "exited" (not waited for) | "reaped" | "reused" (its pid
                       \* now belongs to a process of somebody else)
  lendpoint,           \* what http://localhost:11434/api/tags answers now
  lpc,                 \* position of the script
  lpolls,              \* iterations of the loop of line 37 done so far
  lstart,              \* what start_ollama did: "none" | "pending" | "already" |
                       \* "spawned" | "failed" | "raised"
  lstop,               \* how the last stop_ollama call ended
  lsig,                \* signals the current / last stop_ollama call delivered
  lprior               \* an earlier stop_ollama call saw the daemon terminate

lvars == <<g_process, lproc, lendpoint, lpc, lpolls, lstart, lstop, lsig, lprior>>

VARIABLES
  apc,                     \* position of the script run of the session: "idle"
                           \* between two runs, "setup", "models", "ui", "exited"
  ollama_status_checked,   \* st.session_state.ollama_status_checked
  installed_models,        \* st.session_state.installed_models is not empty
  vector_index,            \* st.session_state.vector_index is an index
  summary_index,           \* st.session_state.summary_index is an index
  uploaded_filename,       \* st.session_state.uploaded_filename, "none" is None
  document_processed,      \* st.session_state.document_processed
  uploaded_file,           \* the file in the uploader widget, "none" if empty
  clicked,                 \* the button whose click started this run, or "none"
  done,                    \* what the last branch of render_ui that ran to its
                           \* end was
  started_ok,              \* a start() call of this session returned
                           \* "already_running" or "started"
  start_again,             \* start() was called in this session after such a return
  early_ops                \* a catalog, index or query operation was called in
                           \* this session before such a return

avars == <<apc, ollama_status_checked, installed_models, vector_index,
           summary_index, uploaded_filename, document_processed,
           uploaded_file, clicked, done, started_ok, start_again, early_ops>>

VARIABLES
  _store,            \* self._store: NoStore, or the Chroma object
  _embeddings,       \* self._embeddings: the model name the embeddings were
                     \* created for, "None" is None
  _current_model,    \* self._current_model, "None" is None
  collection,        \* number of texts of the collection of persist_directory
  vpc,               \* position of the call in progress, "idle" if there is none
  vcall,             \* the method of the last call
  varg,              \* the model_name of the last update_embedding_model
  vres,              \* "returned" or "raised" for the last call, "pending"
                     \* while it is in progress, "none" before the first
  store0,            \* _store, _embeddings and _current_model when the
  embeddings0,       \* last call was made
  model0

vvars == <<_store, _embeddings, _current_model, collection, vpc, vcall, varg,
           vres, store0, embeddings0, model0>>

\* what a step of one component leaves alone
notManager == <<ivars, qvars, lvars, avars, vvars>>

notIndex == <<mvars, qvars, lvars, avars, vvars>>

notQuery == <<mvars, ivars, lvars, avars, vvars>>

notLegacy == <<mvars, ivars, qvars, avars, vvars>>

notApp == <<mvars, ivars, qvars, lvars, vvars>>

notVectorStore == <<mvars, ivars, qvars, lvars, avars>>

vars == <<mvars, ivars, qvars, lvars, avars, vvars>>

(* ---------------------------------------------------------------------- *)
(* OllamaManager                                                           *)
(* ---------------------------------------------------------------------- *)

\* is_ollama_running: "true" | "false" | "raise"; no answer at all while hung
ProbeResult(e) ==
  CASE e = "up"    -> "true"
    [] e = "wrong" -> "false"
    [] e = "down"  -> "false"
    [] e = "error" -> "raise"
    [] OTHER       -> "blocked"

\* which except clause of stop() takes an exception raised in its try block
StopHandler_NoGeneric(exc) ==
  CASE exc = "psutil.NoSuchProcess"  -> "nosuch"
    [] exc = "psutil.TimeoutExpired" -> "kill"
    [] OTHER                         -> "propagate"

StopHandler(exc) ==
  CASE exc = "psutil.NoSuchProcess"  -> "nosuch"
    [] exc = "psutil.TimeoutExpired" -> "kill"
    [] OTHER                         -> "generic"

\* positions of the log where a signal was sent
Signals(log) == {i \in 1..Len(log) : log[i][1] \in {"terminate", "kill"}}

\* the run of stop() the log records saw the daemon exit within the grace wait
WaitedOut(log) == \E i \in 1..Len(log) : log[i][1] = "wait_ok"

\* start() returns to the application
Return(outcome) ==
  /\ pc' = "idle"
  /\ caller' = "none"
  /\ status' = outcome
  /\ UNCHANGED <<stopRes, modelsRes>>

\* get_installed_models() returns to the application
ModelsReturn(outcome) ==
  /\ pc' = "idle"
  /\ caller' = "none"
  /\ modelsRes' = outcome
  /\ UNCHANGED <<status, stopRes>>

\* a step inside a call
Goto(label) ==
  /\ pc' = label
  /\ UNCHANGED <<caller, status, stopRes, modelsRes>>

\* ---- start() -----------------------------------------------------------

StartCall ==
  /\ UNCHANGED notManager
  /\ pc = "idle"
  /\ pc' = "start_probe"
  /\ caller' = "start"
  /\ status' = "pending"
  /\ stopRes' = "none"
  /\ modelsRes' = "none"
  /\ polls' = 0
  /\ spawned' = 0
  /\ spawnErr' = "none"
  /\ handle0' = ollama_process
  /\ priorOK' = (priorOK \/ WaitedOut(sigLog))
  /\ sigLog' = <<>>
  /\ UNCHANGED <<ollama_process, atexit_registered, hooks, proc, child, endpoint>>

\* line 59-61: the daemon answers, nothing is spawned
StartAlreadyRunning_Reset ==
  /\ Return("already_running")
  /\ ollama_process' = 0
  /\ UNCHANGED <<atexit_registered, hooks, spawnErr, proc, child, endpoint, polls, spawned,
                 handle0, sigLog, priorOK>>

StartAlreadyRunning ==
  /\ Return("already_running")
  /\ UNCHANGED <<ollama_process, atexit_registered, hooks, spawnErr, proc, child, endpoint, polls,
                 spawned, handle0, sigLog, priorOK>>

\* line 59: the first probe, outside the try block
StartProbe ==
  /\ UNCHANGED notManager
  /\ pc = "start_probe"
  /\ \/ /\ ProbeResult(endpoint) = "true"
        /\ StartAlreadyRunning
     \/ /\ ProbeResult(endpoint) = "false"
        /\ Goto("start_spawn")
        /\ UNCHANGED <<ollama_process, atexit_registered, hooks, spawnErr, proc, child, endpoint,
                       polls, spawned, handle0, sigLog, priorOK>>
     \/ /\ ProbeResult(endpoint) = "raise"
        /\ Return("raised")
        /\ UNCHANGED <<ollama_process, atexit_registered, hooks, spawnErr, proc, child, endpoint,
                       polls, spawned, handle0, sigLog, priorOK>>

\* line 24-28
register_atexit ==
  /\ atexit_registered' = TRUE
  /\ hooks' = IF atexit_registered THEN hooks ELSE hooks + 1

\* line 65-72: Popen succeeds, the handle is overwritten, atexit is registered
StartSpawnOk ==
  /\ UNCHANGED notManager
  /\ pc = "start_spawn"
  /\ \E p \in Pids, c \in {"none", "running"} :
       /\ proc[p] = "unspawned"
       /\ \A q \in Pids : q < p => proc[q] # "unspawned"
       /\ proc' = [proc EXCEPT ![p] = "running"]
       /\ child' = [child EXCEPT ![p] = c]
       /\ ollama_process' = p
       /\ spawned' = p
  /\ register_atexit
  /\ priorOK' = FALSE
  /\ Goto("start_poll")
  /\ UNCHANGED <<spawnErr, endpoint, polls, handle0, sigLog>>

\* exceptions subprocess.Popen(["ollama", "serve"]) raises
PopenErrors == {"FileNotFoundError", "PermissionError", "OSError"}

\* line 88-94: which except clause of start() takes it, and what it returns
StartHandler_OneClause(exc) == "failed_to_start"

StartHandler(exc) ==
  IF exc = "FileNotFoundError" THEN "not_found" ELSE "failed_to_start"

\* line 64-65, 88-94: Popen raises, nothing is assigned to the handle
StartSpawnFail ==
  /\ UNCHANGED notManager
  /\ pc = "start_spawn"
  /\ \E exc \in PopenErrors :
       /\ spawnErr' = exc
       /\ Return(StartHandler(exc))
  /\ UNCHANGED <<ollama_process, atexit_registered, hooks, proc, child, endpoint,
                 polls, spawned, handle0, sigLog, priorOK>>

\* line 77-81: one probe of the polling window; the variant goes on polling
\* after an answer of the daemon
StartPoll_KeepsPolling ==
  /\ UNCHANGED notManager
  /\ pc = "start_poll"
  /\ polls < PollWindow
  /\ \/ /\ ProbeResult(endpoint) = "true"
        /\ polls' = polls + 1
        /\ Goto("start_poll")
     \/ /\ ProbeResult(endpoint) = "false"
        /\ polls' = polls + 1
        /\ Goto("start_poll")
     \/ /\ ProbeResult(endpoint) = "raise"     \* line 92-94
        /\ Return("failed_to_start")
        /\ UNCHANGED polls
  /\ UNCHANGED <<ollama_process, atexit_registered, hooks, spawnErr, proc, child, endpoint,
                 spawned, handle0, sigLog, priorOK>>

StartPoll ==
  /\ UNCHANGED notManager
  /\ pc = "start_poll"
  /\ polls < PollWindow
  /\ \/ /\ ProbeResult(endpoint) = "true"
        /\ Return("started")
        /\ UNCHANGED polls
     \/ /\ ProbeResult(endpoint) = "false"
        /\ polls' = polls + 1
        /\ Goto("start_poll")
     \/ /\ ProbeResult(endpoint) = "raise"     \* line 92-94
        /\ Return("failed_to_start")
        /\ UNCHANGED polls
  /\ UNCHANGED <<ollama_process, atexit_registered, hooks, spawnErr, proc, child, endpoint,
                 spawned, handle0, sigLog, priorOK>>

\* line 84: the window elapsed, start() calls self.stop()
StartCleanup ==
  /\ UNCHANGED notManager
  /\ pc = "start_poll"
  /\ polls = PollWindow
  /\ Goto("stop_check")
  /\ priorOK' = (priorOK \/ WaitedOut(sigLog))
  /\ sigLog' = <<>>
  /\ UNCHANGED <<ollama_process, atexit_registered, hooks, spawnErr, proc, child, endpoint,
                 polls, spawned, handle0>>

\* ---- stop() ------------------------------------------------------------

StopCall ==
  /\ UNCHANGED notManager
  /\ pc = "idle"
  /\ pc' = "stop_check"
  /\ caller' = "stop"
  /\ priorOK' = (priorOK \/ WaitedOut(sigLog))
  /\ sigLog' = <<>>
  \* the probe counter is a local of a start() call that is over
  /\ polls' = 0
  /\ UNCHANGED <<ollama_process, atexit_registered, hooks, spawnErr, proc, child, endpoint,
                 spawned, handle0, status, stopRes, modelsRes>>

\* stop() is over: back to the application, or to line 85-86 of start(), where
\* an exception of stop() would be taken by line 92-94, or, when atexit ran
\* it, the interpreter is gone
StopReturn(raised) ==
  IF caller = "start"
    THEN Return("failed_to_start")
    ELSE /\ pc' = IF caller = "atexit" THEN "gone" ELSE "idle"
         /\ caller' = "none"
         /\ stopRes' = IF raised THEN "raised" ELSE "returned"
         /\ UNCHANGED <<status, modelsRes>>

\* line 98: if self.ollama_process and self.ollama_process.poll() is None
StopGuard == ollama_process # 0 /\ proc[ollama_process] = "running"

StopCheck ==
  /\ UNCHANGED notManager
  /\ pc = "stop_check"
  /\ IF StopGuard THEN Goto("stop_signal") ELSE StopReturn(FALSE)
  /\ UNCHANGED <<ollama_process, atexit_registered, hooks, spawnErr, proc, child, endpoint,
                 polls, spawned, handle0, sigLog, priorOK>>

\* line 110-116: an exception met in the try block of stop(), log is what the
\* try block did before it
StopExcept(exc, log) ==
  CASE StopHandler(exc) = "nosuch"  ->
         /\ sigLog' = log
         /\ Goto("stop_clear")
         /\ UNCHANGED <<proc, child>>
    [] StopHandler(exc) = "kill"    ->       \* line 114: self.ollama_process.kill()
         /\ sigLog' = Append(log, <<"kill", "daemon">>)
         /\ proc' = [proc EXCEPT ![ollama_process] = "exited"]
         /\ Goto("stop_clear")
         /\ UNCHANGED child
    [] StopHandler(exc) = "generic" ->
         /\ sigLog' = log
         /\ Goto("stop_clear")
         /\ UNCHANGED <<proc, child>>
    [] OTHER                        ->
         /\ sigLog' = log
         /\ StopReturn(TRUE)
         /\ UNCHANGED <<proc, child>>

\* line 102-105: terminate the descendants, then the daemon
StopSignal ==
  /\ UNCHANGED notManager
  /\ pc = "stop_signal"
  /\ LET kids == IF child[ollama_process] = "running"
                   THEN <<<<"terminate", "child">>>> ELSE <<>>
     IN \/ /\ sigLog' = kids \o <<<<"terminate", "daemon">>>>
           /\ Goto("stop_wait")
           /\ UNCHANGED <<proc, child>>
        \/ \* psutil.Process(pid) or parent.children() fails
           \E exc \in PsutilErrors : StopExcept(exc, <<>>)
        \/ \* a descendant is gone or protected when child.terminate() reaches it
           /\ child[ollama_process] = "running"
           /\ \E exc \in PsutilErrors : StopExcept(exc, <<>>)
        \/ \* parent.terminate() fails after the descendants were signalled
           \E exc \in PsutilErrors : StopExcept(exc, kids)
  /\ UNCHANGED <<ollama_process, atexit_registered, hooks, spawnErr, endpoint, polls, spawned,
                 handle0, priorOK>>

\* line 108: self.ollama_process.wait(timeout=5)
StopWait ==
  /\ UNCHANGED notManager
  /\ pc = "stop_wait"
  /\ IF proc[ollama_process] = "exited"
       THEN /\ sigLog' = Append(sigLog, <<"wait_ok", "daemon">>)
            /\ Goto("stop_clear")
            /\ UNCHANGED <<proc, child>>
       ELSE StopExcept("subprocess.TimeoutExpired",
                       Append(sigLog, <<"timeout", "daemon">>))
  /\ UNCHANGED <<ollama_process, atexit_registered, hooks, spawnErr, endpoint, polls, spawned,
                 handle0, priorOK>>

\* line 30-40
unregister_atexit == ollama_process' = 0

\* line 119
StopClear ==
  /\ UNCHANGED notManager
  /\ pc = "stop_clear"
  /\ unregister_atexit
  /\ StopReturn(FALSE)
  /\ UNCHANGED <<atexit_registered, hooks, spawnErr, proc, child, endpoint, polls, spawned,
                 handle0, sigLog, priorOK>>

\* ---- get_installed_models() ---------------------------------------------

ModelsCall ==
  /\ UNCHANGED notManager
  /\ pc = "idle"
  /\ pc' = "models_probe"
  /\ caller' = "models"
  /\ modelsRes' = "pending"
  /\ UNCHANGED <<ollama_process, atexit_registered, hooks, spawnErr, proc, child, endpoint,
                 polls, spawned, handle0, status, stopRes, sigLog, priorOK>>

\* line 126-128
ModelsProbe ==
  /\ UNCHANGED notManager
  /\ pc = "models_probe"
  /\ \/ /\ ProbeResult(endpoint) = "true"
        /\ Goto("models_request")
     \/ /\ ProbeResult(endpoint) = "false"
        /\ ModelsReturn("empty")
     \/ /\ ProbeResult(endpoint) = "raise"
        /\ ModelsReturn("raised")
  /\ UNCHANGED <<ollama_process, atexit_registered, hooks, spawnErr, proc, child, endpoint,
                 polls, spawned, handle0, sigLog, priorOK>>

\* bodies the daemon can answer GET /api/tags with
TagBodies == {"well_formed", "http_error", "not_json", "not_object", "no_name"}

\* line 130-141
ModelsParse(body) ==
  CASE body = "well_formed" -> "names"
    [] body = "http_error"  -> "empty"     \* raise_for_status: HTTPError
    [] body = "not_json"    -> "empty"     \* JSONDecodeError
    [] OTHER                -> "raised"    \* AttributeError, KeyError, TypeError

\* line 131: the request for the model list, which has no timeout either
ModelsRequest ==
  /\ UNCHANGED notManager
  /\ pc = "models_request"
  /\ \/ /\ endpoint \in {"up", "wrong"}
        /\ \E body \in TagBodies : ModelsReturn(ModelsParse(body))
     \/ /\ endpoint \in {"down", "error"}       \* a RequestException
        /\ ModelsReturn("empty")
  /\ UNCHANGED <<ollama_process, atexit_registered, hooks, spawnErr, proc, child, endpoint,
                 polls, spawned, handle0, sigLog, priorOK>>

\* ---- exit of the application -------------------------------------------

\* line 27: the interpreter exits normally between two calls and runs what
\* atexit.register(self.stop) registered
AppExit ==
  /\ UNCHANGED notManager
  /\ pc = "idle"
  /\ IF hooks > 0
       THEN /\ pc' = "stop_check"
            /\ caller' = "atexit"
            /\ priorOK' = (priorOK \/ WaitedOut(sigLog))
            /\ sigLog' = <<>>
       ELSE /\ pc' = "gone"
            /\ caller' = "none"
            /\ UNCHANGED <<priorOK, sigLog>>
  \* the model list and the probe counter are locals of calls that are over
  /\ modelsRes' = "none"
  /\ polls' = 0
  /\ UNCHANGED <<ollama_process, atexit_registered, hooks, spawnErr, proc, child, endpoint,
                 spawned, handle0, status, stopRes>>

\* ---- the environment ----------------------------------------------------

EndpointChange ==
  /\ UNCHANGED notManager
  /\ \E e \in Endpoints \ {endpoint} : endpoint' = e
  /\ UNCHANGED <<ollama_process, atexit_registered, hooks, spawnErr, proc, child, pc, caller,
                 polls, spawned, handle0, status, stopRes, modelsRes, sigLog,
                 priorOK>>

ProcExit ==
  /\ UNCHANGED notManager
  /\ \E p \in Pids :
       \/ /\ proc[p] = "running"
          /\ proc' = [proc EXCEPT ![p] = "exited"]
          /\ UNCHANGED child
       \/ /\ child[p] = "running"
          /\ child' = [child EXCEPT ![p] = "none"]
          /\ UNCHANGED proc
  /\ UNCHANGED <<ollama_process, atexit_registered, hooks, spawnErr, endpoint, pc, caller,
                 polls, spawned, handle0, status, stopRes, modelsRes, sigLog,
                 priorOK>>

\* the steps the calling thread takes by itself once a call is in progress
ManagerStep ==
  \/ StartProbe
  \/ StartSpawnOk
  \/ StartSpawnFail
  \/ StartPoll
  \/ StartCleanup
  \/ StopCheck
  \/ StopSignal
  \/ StopWait
  \/ StopClear
  \/ ModelsProbe
  \/ ModelsRequest

MNext ==
  \/ StartCall
  \/ StopCall
  \/ ModelsCall
  \/ AppExit
  \/ ManagerStep
  \/ EndpointChange
  \/ ProcExit

(* ---------------------------------------------------------------------- *)
(* Claims about OllamaManager                                              *)
(* ---------------------------------------------------------------------- *)

C2_StopIdempotent ==
  /\ status = "started" => stopRes # "raised"
  /\ (status = "started" /\ priorOK) => Signals(sigLog) = {}

\* a stop() call has returned after an earlier one had terminated the daemon
C2_Witness ==
  /\ pc = "idle" /\ status = "started" /\ priorOK /\ stopRes = "returned"

\* C6: every running process the instance spawned is the one its handle
\* refers to.
C6_HandleOwnsEverySpawned ==
  \A p \in Pids : proc[p] = "running" => ollama_process = p

\* C7: when a stop() call has returned, the handle is cleared.
C7_HandleClearedAfterStop ==
  (pc = "idle" /\ stopRes = "returned") => ollama_process = 0

\* C8: when the grace wait of stop() timed out, stop() has sent a kill to the
\* daemon and to its running descendant.
C8_KillAfterGraceTimeout ==
  (pc = "stop_clear" /\ \E i \in 1..Len(sigLog) : sigLog[i][1] = "timeout")
     => /\ \E j \in 1..Len(sigLog) : sigLog[j] = <<"kill", "daemon">>
        /\ child[ollama_process] = "running"
             => \E j \in 1..Len(sigLog) : sigLog[j] = <<"kill", "child">>

\* C9: when start() returns "failed_to_start" after the whole polling window
\* failed, the process it spawned is not running and no handle is held.
C9_FailedStartLeavesNothing ==
  (pc = "idle" /\ status = "failed_to_start" /\ polls = PollWindow /\ stopRes = "none")
     => (ollama_process = 0 /\ proc[spawned] # "running")

\* C10: a call in progress is never left waiting for an answer that the
\* daemon alone decides to give: some step of the call can always be taken.
C10_CallNeverBlocked ==
  pc \notin {"idle", "gone"} => ENABLED ManagerStep

\* C11: whenever the manager holds a handle, stop() is registered with
\* atexit; it is registered at most once however many times start() spawns;
\* and once the application has exited normally, no process the instance
\* spawned is running.
C11_ExitHookLeavesNoDaemon ==
  /\ ollama_process # 0 => (atexit_registered /\ hooks > 0)
  /\ hooks <= 1
  /\ pc = "gone" => \A p \in Pids : proc[p] # "running"

\* C21: get_installed_models never ends with an exception: it returns the
\* names of a well-formed answer and the empty list in every other case.
C21_ModelsNeverRaise ==
  modelsRes \in {"none", "pending", "names", "empty"}

\* C22: when Popen cannot find the executable start() returns "not_found",
\* on any other exception of Popen "failed_to_start", and the step in which
\* Popen fails leaves the handle, the atexit registration and every process
\* as they were.
C22_SpawnFailureStatus ==
  [][/\ spawnErr' = "FileNotFoundError" => status' = "not_found"
     /\ spawnErr' \notin {"none", "FileNotFoundError"} => status' = "failed_to_start"
     /\ status' = "not_found" => spawnErr' = "FileNotFoundError"
     /\ (spawnErr = "none" /\ spawnErr' # "none") =>
          /\ pc = "start_spawn" /\ pc' = "idle"
          /\ spawned' = 0
          /\ ollama_process' = ollama_process
          /\ atexit_registered' = atexit_registered
          /\ hooks' = hooks
          /\ proc' = proc
    ]_vars

\* start() returned "not_found" and the manager holds no handle and no hook
C22_Witness ==
  /\ pc = "idle" /\ status = "not_found" /\ spawnErr = "FileNotFoundError"
  /\ ollama_process = 0 /\ hooks = 0 /\ spawned = 0

\* C23: a probe of the polling window that the daemon answers ends start()
\* with "started" and no further probe; start() returns "started" only from
\* such a probe, after its spawn, and the handle is then the process that
\* this call spawned.
C23_StartedExactly ==
  [][/\ (pc = "start_poll" /\ polls < PollWindow
           /\ <<pc, polls>>' # <<pc, polls>>
           /\ ProbeResult(endpoint) = "true") =>
          (pc' = "idle" /\ status' = "started" /\ polls' = polls)
     /\ (status' = "started" /\ status # "started") =>
          /\ pc = "start_poll" /\ polls < PollWindow
          /\ ProbeResult(endpoint) = "true"
          /\ spawned # 0 /\ spawnErr = "none"
          /\ proc[spawned] # "unspawned"
          /\ ollama_process' = spawned
    ]_vars

\* start() returned "started" after probes of the window had failed
C23_Witness ==
  /\ pc = "idle" /\ status = "started" /\ stopRes = "none"
  /\ polls > 0 /\ spawned # 0 /\ ollama_process = spawned

\* C29: when start() has returned "failed_to_start", the process that call
\* spawned, if any, is not running.
C29_FailedStartNoProcess ==
  (pc = "idle" /\ status = "failed_to_start" /\ stopRes = "none" /\ spawned # 0)
     => proc[spawned] # "running"

(* ---------------------------------------------------------------------- *)
(* IndexBuilder                                                            *)
(* ---------------------------------------------------------------------- *)

\* threads that call the index builder on the same persistence root (one
\* Streamlit session each)
Callers == {1, 2}

\* documents the embedding backend is asked to embed in one run of the model
MaxEmbeds == 3

\* default index names of get_vector_index / get_summary_index
Names == {"vector_index", "summary_index"}

\* files StorageContext.persist writes; docstore.json is the marker of line 26
Marker == "docstore.json"
Files == {Marker, "index_store.json"}

Docs == {"docA", "docB"}

\* document lists passed to the cache (Document ids are stable: the loader
\* uses filename_as_id)
DocLists == {<<>>, <<"docA">>, <<"docA", "docB">>}

\* an index holds, for each document, the number of times it was embedded into
\* it; a file holds the index it was written from
NoCopies == [d \in Docs |-> 0]
Index(copies) == [kind |-> "index", copies |-> copies]
Empty == Index(NoCopies)
Absent == [kind |-> "absent", copies |-> NoCopies]
NoIndex == [kind |-> "none", copies |-> NoCopies]
Partial == [kind |-> "partial", copies |-> NoCopies]
IsContent(x) == x.kind = "index"

\* all files of the artifact are present, hold an index and belong to the
\* same persist
Loadable(files) ==
  /\ \A f \in Files : IsContent(files[f])
  /\ \A f, g \in Files : files[f] = files[g]

\* what StorageContext.from_defaults(persist_dir) holds after reading the directory
Snapshot(files) ==
  IF \A f \in Files : files[f] = Absent THEN Empty
  ELSE IF Loadable(files) THEN files[Marker]
  ELSE Partial

\* the call of caller c returns: None, an index object, or an exception
IEnd(c, res, index) ==
  /\ ipc' = [ipc EXCEPT ![c] = "idle"]
  /\ result' = [result EXCEPT ![c] = res]
  /\ mem' = [mem EXCEPT ![c] = index]
  /\ todo' = [todo EXCEPT ![c] = <<>>]
  /\ written' = [written EXCEPT ![c] = {}]

\* a return that is not the one of the except clause
IReturn(c, res, index) ==
  /\ IEnd(c, res, index)
  /\ UNCHANGED failedAt

\* line 47-49: except Exception: return None
ICaught(c) ==
  /\ IEnd(c, "None", NoIndex)
  /\ failedAt' = [failedAt EXCEPT ![c] = ipc[c]]

\* get_vector_index / get_summary_index (line 51-55)
BuildOrLoadCall(c) ==
  /\ UNCHANGED notIndex
  /\ ipc[c] = "idle"
  /\ \E docs \in DocLists, n \in Names :
       /\ embeds + Len(docs) <= MaxEmbeds
       /\ embeds' = embeds + Len(docs)
       /\ todo' = [todo EXCEPT ![c] = docs]
       /\ hasdocs' = [hasdocs EXCEPT ![c] = (docs # <<>>)]
       /\ iname' = [iname EXCEPT ![c] = n]
  /\ ipc' = [ipc EXCEPT ![c] = "context"]
  /\ result' = [result EXCEPT ![c] = "none"]
  /\ mem' = [mem EXCEPT ![c] = NoIndex]
  /\ failedAt' = [failedAt EXCEPT ![c] = "none"]
  /\ UNCHANGED <<disk, root, written>>

\* line 17-19, 22: the storage context reads the directory, outside the try block
GetStorageContext(c) ==
  /\ UNCHANGED notIndex
  /\ ipc[c] = "context"
  /\ \/ /\ mem' = [mem EXCEPT ![c] = Snapshot(disk[iname[c]])]
        /\ ipc' = [ipc EXCEPT ![c] = "exists"]
        /\ UNCHANGED <<todo, written, result, failedAt>>
     \/ /\ ~ Loadable(disk[iname[c]])       \* the library raises on what it finds
        /\ IReturn(c, "raised", NoIndex)
  /\ UNCHANGED <<disk, root, iname, hasdocs, embeds>>

\* line 26, 37, 44: which branch the call takes
MarkerExists(c) ==
  /\ UNCHANGED notIndex
  /\ ipc[c] = "exists"
  /\ IF disk[iname[c]][Marker] # Absent
       THEN /\ ipc' = [ipc EXCEPT ![c] = "load"]
            /\ UNCHANGED <<mem, todo, written, result, failedAt>>
       ELSE IF todo[c] # <<>>
         THEN /\ ipc' = [ipc EXCEPT ![c] = "build"]
              /\ UNCHANGED <<mem, todo, written, result, failedAt>>
         ELSE IReturn(c, "None", NoIndex)
  /\ UNCHANGED <<disk, root, iname, hasdocs, embeds>>

\* line 28-30, 36: load_index_from_storage(storage_context); the variant
\* returns the loaded index only when documents were given
LoadIndex_ReturnsOnlyWithDocs(c) ==
  /\ UNCHANGED notIndex
  /\ ipc[c] = "load"
  /\ \/ /\ mem[c] # Empty
        /\ IF todo[c] # <<>>
             THEN /\ ipc' = [ipc EXCEPT ![c] = "insert"]
                  /\ UNCHANGED <<mem, todo, written, result, failedAt>>
             ELSE ICaught(c)
     \/ /\ ~ IsContent(mem[c]) \/ mem[c] = Empty
        /\ ICaught(c)
  /\ UNCHANGED <<disk, root, iname, hasdocs, embeds>>

LoadIndex(c) ==
  /\ UNCHANGED notIndex
  /\ ipc[c] = "load"
  /\ \/ /\ mem[c] # Empty                \* an index comes out of the stores
        /\ IF todo[c] # <<>>
             THEN /\ ipc' = [ipc EXCEPT ![c] = "insert"]
                  /\ UNCHANGED <<mem, todo, written, result, failedAt>>
             ELSE IReturn(c, "index", mem[c])
     \/ /\ ~ IsContent(mem[c]) \/ mem[c] = Empty   \* the load raises
        /\ ICaught(c)
  /\ UNCHANGED <<disk, root, iname, hasdocs, embeds>>

\* index.insert_document(doc): the document is embedded and added
InsertInto(index, d) ==
  IF IsContent(index) THEN [index EXCEPT !.copies[d] = @ + 1] ELSE index

\* line 32-33: one iteration of the loop over the documents; the variant
\* writes the document store through at every insert
InsertDocument_WritesThrough(c) ==
  /\ UNCHANGED notIndex
  /\ ipc[c] = "insert"
  /\ todo[c] # <<>>
  /\ \/ /\ mem' = [mem EXCEPT ![c] = InsertInto(mem[c], Head(todo[c]))]
        /\ todo' = [todo EXCEPT ![c] = Tail(todo[c])]
        /\ ipc' = [ipc EXCEPT ![c] = IF Tail(todo[c]) = <<>> THEN "persist" ELSE "insert"]
        /\ UNCHANGED <<written, result, failedAt>>
     \/ ICaught(c)                       \* the embedding backend fails
  /\ disk' = [disk EXCEPT ![iname[c]][Marker] =
                IF ipc'[c] = "idle" THEN @ ELSE mem'[c]]
  /\ UNCHANGED <<root, iname, hasdocs, embeds>>

InsertDocument(c) ==
  /\ UNCHANGED notIndex
  /\ ipc[c] = "insert"
  /\ todo[c] # <<>>
  /\ \/ /\ mem' = [mem EXCEPT ![c] = InsertInto(mem[c], Head(todo[c]))]
        /\ todo' = [todo EXCEPT ![c] = Tail(todo[c])]
        /\ ipc' = [ipc EXCEPT ![c] = IF Tail(todo[c]) = <<>> THEN "persist" ELSE "insert"]
        /\ UNCHANGED <<written, result, failedAt>>
     \/ ICaught(c)                       \* the embedding backend fails
  /\ UNCHANGED <<disk, root, iname, hasdocs, embeds>>

RECURSIVE InsertAll(_, _)
InsertAll(index, docs) ==
  IF docs = <<>> THEN index ELSE InsertAll(InsertInto(index, Head(docs)), Tail(docs))

\* line 40: index_class.from_documents(documents, storage_context=storage_context)
FromDocuments(c) ==
  /\ UNCHANGED notIndex
  /\ ipc[c] = "build"
  /\ \/ /\ mem' = [mem EXCEPT ![c] = InsertAll(mem[c], todo[c])]
        /\ todo' = [todo EXCEPT ![c] = <<>>]
        /\ ipc' = [ipc EXCEPT ![c] = "persist"]
        /\ UNCHANGED <<written, result, failedAt>>
     \/ ICaught(c)
  /\ UNCHANGED <<disk, root, iname, hasdocs, embeds>>

\* line 34, 41: index.storage_context.persist(persist_dir=index_persist_path)
\* creates the directories that are missing and writes the files of the
\* artifact one after the other into the final path
Persist(c) ==
  /\ UNCHANGED notIndex
  /\ ipc[c] = "persist"
  /\ \/ /\ \E f \in Files \ written[c] :
             /\ disk' = [disk EXCEPT ![iname[c]][f] = mem[c]]
             /\ root' = TRUE
             /\ IF written[c] \cup {f} = Files
                  THEN IReturn(c, "index", mem[c])
                  ELSE /\ written' = [written EXCEPT ![c] = @ \cup {f}]
                       /\ UNCHANGED <<ipc, mem, todo, result, failedAt>>
     \/ /\ ICaught(c)                    \* a write fails
        /\ UNCHANGED <<disk, root>>
  /\ UNCHANGED <<iname, hasdocs, embeds>>

\* a clear operation of caller c begins
ClearCall(c, op) ==
  /\ ipc[c] = "idle"
  /\ ipc' = [ipc EXCEPT ![c] = op]
  /\ result' = [result EXCEPT ![c] = "none"]
  /\ mem' = [mem EXCEPT ![c] = NoIndex]
  /\ hasdocs' = [hasdocs EXCEPT ![c] = FALSE]
  /\ failedAt' = [failedAt EXCEPT ![c] = "none"]
  /\ UNCHANGED <<disk, root, todo, written, embeds>>

\* a clear operation of caller c returns (None, after its print)
ClearReturn(c) ==
  /\ ipc' = [ipc EXCEPT ![c] = "idle"]
  /\ result' = [result EXCEPT ![c] = "cleared"]
  /\ UNCHANGED <<iname, todo, mem, written, hasdocs, failedAt, embeds>>

\* line 57: clear_index_storage(index_name) is called
ClearIndexCall(c) ==
  /\ UNCHANGED notIndex
  /\ ClearCall(c, "clear_index")
  /\ \E n \in Names : iname' = [iname EXCEPT ![c] = n]

\* line 58-63: the directory of the name is removed when it exists
clear_index_storage(c) ==
  /\ UNCHANGED notIndex
  /\ ipc[c] = "clear_index"
  /\ disk' = [disk EXCEPT ![iname[c]] = [f \in Files |-> Absent]]
  /\ ClearReturn(c)
  /\ UNCHANGED root

\* line 65: clear_all_storage() is called
ClearAllCall(c) ==
  /\ UNCHANGED notIndex
  /\ ClearCall(c, "clear_all")
  /\ UNCHANGED iname

\* line 66-67, 70-71: when the root exists it is removed with all it holds,
\* else the call only prints
clear_all_storage(c) ==
  /\ UNCHANGED notIndex
  /\ ipc[c] = "clear_all"
  /\ IF root
       THEN /\ disk' = [n \in Names |-> [f \in Files |-> Absent]]
            /\ root' = FALSE
            /\ ipc' = [ipc EXCEPT ![c] = "makedirs"]
            /\ UNCHANGED <<iname, todo, mem, written, result, hasdocs, failedAt,
                         embeds>>
       ELSE /\ ClearReturn(c)
            /\ UNCHANGED <<disk, root>>

\* line 69: os.makedirs(self.persist_root_dir, exist_ok=True)
ClearAllMakedirs(c) ==
  /\ UNCHANGED notIndex
  /\ ipc[c] = "makedirs"
  /\ root' = TRUE
  /\ ClearReturn(c)
  /\ UNCHANGED disk

\* the application process dies and is started again: calls in flight are
\* lost, the disk stays, the new IndexBuilder makes sure of its root (line 15)
Crash ==
  /\ UNCHANGED notIndex
  /\ \E c \in Callers : ipc[c] # "idle"
  /\ ipc' = [c \in Callers |-> "idle"]
  /\ todo' = [c \in Callers |-> <<>>]
  /\ mem' = [c \in Callers |-> NoIndex]
  /\ written' = [c \in Callers |-> {}]
  /\ result' = [c \in Callers |-> "none"]
  /\ hasdocs' = [c \in Callers |-> FALSE]
  /\ failedAt' = [c \in Callers |-> "none"]
  /\ root' = TRUE
  /\ UNCHANGED <<disk, iname, embeds>>

INext ==
  \/ \E c \in Callers : BuildOrLoadCall(c)
  \/ \E c \in Callers : GetStorageContext(c)
  \/ \E c \in Callers : MarkerExists(c)
  \/ \E c \in Callers : LoadIndex(c)
  \/ \E c \in Callers : InsertDocument(c)
  \/ \E c \in Callers : FromDocuments(c)
  \/ \E c \in Callers : Persist(c)
  \/ \E c \in Callers : ClearIndexCall(c)
  \/ \E c \in Callers : clear_index_storage(c)
  \/ \E c \in Callers : ClearAllCall(c)
  \/ \E c \in Callers : clear_all_storage(c)
  \/ \E c \in Callers : ClearAllMakedirs(c)
  \/ Crash

\* the same cache used by one caller at a time, with no crash
First == CHOOSE c \in Callers : \A d \in Callers : c <= d

SeqNext ==
  \/ BuildOrLoadCall(First)
  \/ GetStorageContext(First)
  \/ MarkerExists(First)
  \/ LoadIndex(First)
  \/ InsertDocument(First)
  \/ FromDocuments(First)
  \/ Persist(First)
  \/ ClearIndexCall(First)
  \/ clear_index_storage(First)
  \/ ClearAllCall(First)
  \/ clear_all_storage(First)
  \/ ClearAllMakedirs(First)

(* ---------------------------------------------------------------------- *)
(* Claims about IndexBuilder                                               *)
(* ---------------------------------------------------------------------- *)

\* the call of caller c is between its load / build and the end of its persist
InFlight(c) == ipc[c] \in {"load", "insert", "build", "persist"}

\* C3: two calls for the same index name never run their load, insert, build
\* or persist at the same time.
C3_SerializedBuilds ==
  \A c1, c2 \in Callers :
    (c1 # c2 /\ iname[c1] = iname[c2]) => ~ (InFlight(c1) /\ InFlight(c2))

\* C4: at every point the files of a name are either without marker or a
\* loadable artifact, and no call returns an index loaded from partial files.
C4_ArtifactAtomic ==
  /\ \A n \in Names : disk[n][Marker] = Absent \/ Loadable(disk[n])
  /\ \A c \in Callers : result[c] = "index" => mem[c] # Partial

\* C5: no document is embedded a second time into an index that already
\* represents it: every index, in memory or persisted, holds each document
\* at most once.
C5_NoReembedding ==
  /\ \A c \in Callers, d \in Docs : mem[c].copies[d] <= 1
  /\ \A n \in Names, f \in Files, d \in Docs : disk[n][f].copies[d] <= 1

\* no file of the name is persisted
NoFiles(files) == \A f \in Files : files[f] = Absent

\* the step in which the get_vector_index / get_summary_index call of caller c
\* returns, the call having been given no documents
NoDocsReturn(c) ==
  /\ ipc[c] \in {"context", "exists", "load"}
  /\ ipc'[c] = "idle"
  /\ ~ hasdocs[c]

\* C12: no call of get_vector_index / get_summary_index ends with an
\* exception: whatever step fails, the call returns None.
C12_NoExceptionEscapes ==
  \A c \in Callers : result[c] # "raised"

\* C13: a call without documents on a name that has no persisted file returns
\* None, be it on a fresh root or after clear_all_storage(), and writes
\* nothing; a call without documents on the artifact a call with documents
\* persisted returns an index.
C13_NoArtifactUntilBuilt ==
  [][\A c \in Callers :
       /\ NoDocsReturn(c) =>
            /\ disk' = disk
            /\ NoFiles(disk[iname[c]]) => result'[c] = "None"
            /\ Loadable(disk[iname[c]]) =>
                 (result'[c] = "index" /\ IsContent(mem'[c]))
       /\ (ipc[c] = "makedirs" /\ ipc'[c] = "idle") =>
            \A n \in Names : NoFiles(disk'[n])
    ]_vars

\* C14: while a loadable artifact is persisted for its name, a call without
\* documents changes no persisted file of any name and embeds nothing, and it
\* returns the index that is persisted.
C14_LoadLeavesDiskAlone ==
  [][\A c \in Callers :
       (~ hasdocs[c] /\ ipc[c] \in {"context", "exists", "load"}
          /\ ipc'[c] # ipc[c] /\ Loadable(disk[iname[c]])) =>
            /\ disk' = disk
            /\ root' = root
            /\ embeds' = embeds
            /\ ipc'[c] \notin {"insert", "build", "persist"}
            /\ ipc'[c] = "idle" =>
                 (result'[c] = "index" /\ mem'[c] = disk[iname[c]][Marker])
    ]_vars

\* a call without documents has returned the persisted index
C14_Witness ==
  \E c \in Callers :
    /\ ipc[c] = "idle" /\ ~ hasdocs[c] /\ result[c] = "index"
    /\ Loadable(disk[iname[c]]) /\ mem[c] = disk[iname[c]][Marker]
    /\ \E d \in Docs : mem[c].copies[d] > 0

\* C15: when clear_all_storage() returns, it returns without error, the
\* persistence root exists and no file of any name is persisted.
C15_ClearAllLeavesEmptyRoot ==
  [][\A c \in Callers :
       (ipc[c] \in {"clear_all", "makedirs"} /\ ipc'[c] = "idle"
          /\ result'[c] # "none") =>
            /\ result'[c] = "cleared"
            /\ root'
            /\ \A n \in Names : NoFiles(disk'[n])
    ]_vars

\* C16: clear_index_storage(name) returns without error, leaves no persisted
\* file of that name and the files of every other name as they were, changes
\* nothing when the name had no file; and a call without documents on a name
\* that has no persisted file returns None.
C16_ClearIndexFrame ==
  [][\A c \in Callers :
       /\ (ipc[c] = "clear_index" /\ ipc'[c] = "idle") =>
            /\ result'[c] = "cleared"
            /\ NoFiles(disk'[iname[c]])
            /\ \A n \in Names \ {iname[c]} : disk'[n] = disk[n]
            /\ NoFiles(disk[iname[c]]) => disk' = disk
            /\ root' = root
       /\ (NoDocsReturn(c) /\ NoFiles(disk[iname[c]])) =>
            (result'[c] = "None" /\ NoFiles(disk'[iname[c]]))
    ]_vars

\* C26: no step of a call before its persist changes a persisted file, so
\* when an insert or the build raises, the call returns None and the files
\* of every name are what they were when the call began.
C26_FailureBeforePersist ==
  [][\A c \in Callers :
       /\ ipc[c] \in {"context", "exists", "load", "insert", "build"} =>
            (disk' = disk /\ root' = root)
       /\ (failedAt[c] = "none" /\ failedAt'[c] \in {"insert", "build"}) =>
            (result'[c] = "None" /\ ipc'[c] = "idle" /\ disk' = disk)
    ]_vars

\* an insert into a loaded index raised and the persisted artifact is whole
C26_Witness ==
  \E c \in Callers :
    /\ ipc[c] = "idle" /\ hasdocs[c] /\ failedAt[c] = "insert"
    /\ result[c] = "None" /\ Loadable(disk[iname[c]])

(* ---------------------------------------------------------------------- *)
(* QueryHandler                                                            *)
(* ---------------------------------------------------------------------- *)

\* largest similarity_top_k the application asks for
MaxTopK == 3

\* longest query text
MaxLen == 2

\* characters of a query text; str.strip() removes the first three
Whitespace == {"space", "tab", "newline"}
Chars == Whitespace \cup {"a"}

Texts == UNION {[1..n -> Chars] : n \in 0..MaxLen}

\* SimilarityPostprocessor(similarity_cutoff=0.7), in tenths
Cutoff == 7

\* a query engine: the retriever's similarity_top_k (0 where there is none)
\* and the cutoffs of its node postprocessors; None is NoEngine
NoEngine == [kind |-> "none", top_k |-> 0, postprocessors |-> <<>>]
SummaryEngine == [kind |-> "summary", top_k |-> 0, postprocessors |-> <<>>]

\* line 39-42
VectorEngine_NoPostprocessor(k) ==
  [kind |-> "vector", top_k |-> k, postprocessors |-> <<>>]

VectorEngine(k) ==
  [kind |-> "vector", top_k |-> k, postprocessors |-> <<Cutoff>>]

\* line 16, 50: if not index
IndexGiven_Always(idx) == TRUE

IndexGiven(idx) == idx

\* line 20-25
EffectiveTopK_NotWidened(k, w) == k

EffectiveTopK(k, w) == IF w THEN k * 2 ELSE k

\* str.strip(): leading and trailing whitespace removed
RECURSIVE LStrip(_)
LStrip(t) ==
  IF t # <<>> /\ Head(t) \in Whitespace THEN LStrip(Tail(t)) ELSE t

RECURSIVE RStrip(_)
RStrip(t) ==
  IF t # <<>> /\ t[Len(t)] \in Whitespace
    THEN RStrip(SubSeq(t, 1, Len(t) - 1)) ELSE t

Strip(t) == RStrip(LStrip(t))

\* line 63: not query_text or not query_text.strip()
IsEmptyText_NoStrip(t) == t = <<>>

IsEmptyText(t) == t = <<>> \/ Strip(t) = <<>>

\* line 66-69: what query_index returns after query_engine.query: the text of
\* the response, or the error string of the except clause
QueryOutcome_Uncaught(b) == IF b = "ok" THEN "response" ELSE "raised"

QueryOutcome(b) == IF b = "ok" THEN "response" ELSE "error"

\* an engine call ends
EngineReturn(res, e) ==
  /\ qpc' = "idle"
  /\ engineRes' = res
  /\ engine' = e
  /\ retriever' = 0

\* line 7-18: get_vector_query_engine is called
VectorEngineCall ==
  /\ UNCHANGED notQuery
  /\ qpc = "idle"
  /\ \E idx \in BOOLEAN, k \in 1..MaxTopK, w \in BOOLEAN :
       /\ qindex' = idx
       /\ topK' = k
       /\ widen' = w
       /\ tried' = <<>>
       /\ IF IndexGiven(idx)
            THEN /\ qpc' = "first"
                 /\ engineRes' = "pending"
                 /\ engine' = NoEngine
                 /\ retriever' = 0
            ELSE EngineReturn("returned", NoEngine)
  /\ qcall' = "vector"
  /\ UNCHANGED <<qengine, qtext, backend, answer>>

\* line 29-32: index.as_retriever(similarity_top_k=effective_top_k)
FirstRetriever ==
  /\ UNCHANGED notQuery
  /\ qpc = "first"
  /\ \E ok \in BOOLEAN :
       /\ tried' = Append(tried, [top_k |-> EffectiveTopK(topK, widen), ok |-> ok])
       /\ retriever' = IF ok THEN EffectiveTopK(topK, widen) ELSE 0
       /\ qpc' = IF ok THEN "assemble" ELSE "retry"
  /\ UNCHANGED <<qcall, qindex, topK, widen, engine, engineRes, qengine, qtext,
                 backend, answer>>

\* line 33-37: index.as_retriever(similarity_top_k=similarity_top_k)
RetryRetriever ==
  /\ UNCHANGED notQuery
  /\ qpc = "retry"
  /\ \E ok \in BOOLEAN :
       /\ tried' = Append(tried, [top_k |-> topK, ok |-> ok])
       /\ IF ok
            THEN /\ retriever' = topK
                 /\ qpc' = "assemble"
                 /\ UNCHANGED <<engine, engineRes>>
            ELSE EngineReturn("returned", NoEngine)
  /\ UNCHANGED <<qcall, qindex, topK, widen, qengine, qtext, backend, answer>>

\* line 39-42: RetrieverQueryEngine.from_args, after the try blocks
AssembleEngine ==
  /\ UNCHANGED notQuery
  /\ qpc = "assemble"
  /\ \/ EngineReturn("returned", VectorEngine(retriever))
     \/ EngineReturn("raised", NoEngine)
  /\ UNCHANGED <<qcall, qindex, topK, widen, tried, qengine, qtext, backend,
                 answer>>

\* line 44-57: get_summary_query_engine; index.as_query_engine is inside
\* the try block
SummaryEngineCall ==
  /\ UNCHANGED notQuery
  /\ qpc = "idle"
  /\ qcall' = "summary"
  /\ \E idx \in BOOLEAN :
       /\ qindex' = idx
       /\ IF IndexGiven(idx)
            THEN \E ok \in BOOLEAN :
                   /\ tried' = <<[top_k |-> 0, ok |-> ok]>>
                   /\ EngineReturn("returned",
                                   IF ok THEN SummaryEngine ELSE NoEngine)
            ELSE /\ tried' = <<>>
                 /\ EngineReturn("returned", NoEngine)
  /\ UNCHANGED <<topK, widen, qengine, qtext, backend, answer>>

\* line 59-64: query_index is called, with the engine the application holds
\* or with None
QueryCall ==
  /\ UNCHANGED notQuery
  /\ qpc = "idle"
  /\ \E e \in {engine, NoEngine}, t \in Texts :
       /\ qengine' = e
       /\ qtext' = t
       /\ IF e = NoEngine
            THEN /\ answer' = "unavailable"
                 /\ qpc' = "idle"
            ELSE IF IsEmptyText(t)
              THEN /\ answer' = "empty"
                   /\ qpc' = "idle"
              ELSE /\ answer' = "pending"
                   /\ qpc' = "query"
  /\ backend' = <<>>
  /\ UNCHANGED <<qcall, qindex, topK, widen, tried, retriever, engine, engineRes>>

\* line 65-69: query_engine.query(query_text) and str(response), inside the try
BackendQuery ==
  /\ UNCHANGED notQuery
  /\ qpc = "query"
  /\ \E b \in {"ok", "failed", "unprintable"} :
       /\ backend' = Append(backend, b)
       /\ answer' = QueryOutcome(b)
  /\ qpc' = "idle"
  /\ UNCHANGED <<qcall, qindex, topK, widen, tried, retriever, engine,
                 engineRes, qengine, qtext>>

QNext ==
  \/ VectorEngineCall
  \/ FirstRetriever
  \/ RetryRetriever
  \/ AssembleEngine
  \/ SummaryEngineCall
  \/ QueryCall
  \/ BackendQuery

(* ---------------------------------------------------------------------- *)
(* Claims about QueryHandler                                               *)
(* ---------------------------------------------------------------------- *)

\* C17: get_vector_query_engine asks for the retriever with the effective
\* top-k first and, when that fails, once more with similarity_top_k; it
\* returns None when both fail; it asks at most twice and never ends with an
\* exception.
C17_RetryOnceNeverRaises ==
  qcall = "vector" =>
    /\ Len(tried) <= 2
    /\ Len(tried) >= 1 => tried[1].top_k = (IF widen THEN 2 * topK ELSE topK)
    /\ Len(tried) = 2 => (~ tried[1].ok /\ tried[2].top_k = topK)
    /\ (engineRes = "returned" /\ Len(tried) = 2 /\ ~ tried[2].ok)
         => engine = NoEngine
    /\ engineRes # "raised"

\* C18: an engine whose first retriever construction succeeded has the
\* retriever's top-k at similarity_top_k without use_hybrid_search and at
\* twice similarity_top_k with it (3 gives 6).
C18_WidenedTopK ==
  (engineRes = "returned" /\ engine.kind = "vector" /\ Len(tried) = 1) =>
     /\ ~ widen => engine.top_k = topK
     /\ widen => engine.top_k = 2 * topK
     /\ (widen /\ topK = 3) => engine.top_k = 6

\* similarity_top_k = 3 with use_hybrid_search gave an engine over 6 candidates
C18_Witness ==
  /\ qpc = "idle" /\ engineRes = "returned" /\ Len(tried) = 1
  /\ widen /\ topK = 3 /\ engine = VectorEngine(6)

\* C19: query_index called with an engine and a text that is empty or made of
\* whitespace only returns the empty-query sentence and does not call
\* query_engine.query.
C19_EmptyQueryNotSent ==
  (qengine # NoEngine /\ answer # "none"
     /\ \A i \in 1..Len(qtext) : qtext[i] \in Whitespace)
       => (answer = "empty" /\ backend = <<>>)

\* a text of whitespace only was turned away
C19_Witness ==
  /\ qpc = "idle" /\ qengine # NoEngine /\ answer = "empty" /\ backend = <<>>
  /\ Len(qtext) = MaxLen /\ \A i \in 1..Len(qtext) : qtext[i] \in Whitespace

\* C20: query_index never ends with an exception: without an engine and for
\* an empty text it returns its sentence, a failure of the backend becomes the
\* error string, and every outcome is a string.
C20_QueryNeverRaises ==
  /\ answer \in {"none", "pending", "unavailable", "empty", "response", "error"}
  /\ (qpc = "idle" /\ answer # "none") => answer # "pending"
  /\ (backend # <<>> /\ backend[1] # "ok") => answer = "error"
  /\ qengine = NoEngine => answer \in {"none", "unavailable"}

\* the backend failed and the caller got the error string
C20_Witness ==
  /\ qpc = "idle" /\ qengine # NoEngine
  /\ backend = <<"failed">> /\ answer = "error"

\* C24: an engine call without an index returns None and makes no
\* construction call on the index; get_summary_query_engine always returns,
\* and returns None when index.as_query_engine fails.
C24_AbsentIndexAbsentEngine ==
  /\ (qcall # "none" /\ ~ qindex) =>
       (tried = <<>> /\ engineRes = "returned" /\ engine = NoEngine)
  /\ qcall = "summary" =>
       /\ engineRes = "returned"
       /\ Len(tried) <= 1
       /\ (tried # <<>> /\ ~ tried[1].ok) => engine = NoEngine

\* get_summary_query_engine met a failure of as_query_engine and returned None
C24_Witness ==
  /\ qpc = "idle" /\ qcall = "summary" /\ qindex
  /\ tried = <<[top_k |-> 0, ok |-> FALSE]>>
  /\ engineRes = "returned" /\ engine = NoEngine

\* C25: every engine get_vector_query_engine returns, built at the first
\* attempt or at the retry, has exactly one postprocessor, with the cutoff
\* 0.7.
C25_OnePostprocessor ==
  (qcall = "vector" /\ engineRes = "returned" /\ engine # NoEngine) =>
     (Len(engine.postprocessors) = 1 /\ engine.postprocessors[1] = 7)

\* an engine built at the retry carries the postprocessor
C25_Witness ==
  /\ qpc = "idle" /\ qcall = "vector" /\ engineRes = "returned"
  /\ Len(tried) = 2 /\ engine.kind = "vector"
  /\ engine.postprocessors = <<7>>

(* ---------------------------------------------------------------------- *)
(* The legacy script main.py                                               *)
(* ---------------------------------------------------------------------- *)

\* range(10) in start_ollama
LegacyWindow == 10

\* answers to requests.get('http://localhost:11434/api/tags'):
\*   ok      status 200
\*   other   an answer with another status
\*   refused requests.exceptions.ConnectionError
\*   error   another exception of requests
LegacyEndpoints == {"ok", "other", "refused", "error"}

\* os.kill(pid, sig) on the pid of the Popen: whom the signal reaches, "nobody"
\* when the pid does not exist (ProcessLookupError)
KillTarget(st) ==
  CASE st \in {"running", "exited"} -> "daemon"
    [] st = "reused"                -> "foreign"
    [] OTHER                        -> "nobody"

\* line 56: if ollama_process
StopGuardLegacy(g, st) == g # 0

\* line 18-28: start_ollama probes the endpoint
LegacyStartProbe ==
  /\ UNCHANGED notLegacy
  /\ lpc = "idle"
  /\ lstart = "none"
  /\ CASE lendpoint = "ok"    -> lstart' = "already" /\ lpc' = "idle"
       [] lendpoint = "error" -> lstart' = "raised" /\ lpc' = "idle"
       [] OTHER               -> lstart' = "pending" /\ lpc' = "spawn"
  /\ UNCHANGED <<g_process, lproc, lendpoint, lpolls, lstop, lsig, lprior>>

\* line 30-35, 49-51: Popen
LegacySpawn ==
  /\ UNCHANGED notLegacy
  /\ lpc = "spawn"
  /\ \/ /\ g_process' = 1
        /\ lproc' = "running"
        /\ lpc' = "poll"
        /\ UNCHANGED lstart
     \/ /\ lstart' = "failed"
        /\ lpc' = "idle"
        /\ UNCHANGED <<g_process, lproc>>
  /\ UNCHANGED <<lendpoint, lpolls, lstop, lsig, lprior>>

\* line 37-51: one iteration of the polling loop, or its end
LegacyPoll ==
  /\ UNCHANGED notLegacy
  /\ lpc = "poll"
  /\ IF lpolls = LegacyWindow
       THEN /\ lstart' = "failed"            \* line 47-48
            /\ lpc' = "idle"
            /\ UNCHANGED lpolls
       ELSE CASE lendpoint = "ok"    -> /\ lstart' = "spawned"
                                        /\ lpc' = "idle"
                                        /\ UNCHANGED lpolls
              [] lendpoint = "error" -> /\ lstart' = "failed"    \* line 49-51
                                        /\ lpc' = "idle"
                                        /\ UNCHANGED lpolls
              [] OTHER               -> /\ lpolls' = lpolls + 1
                                        /\ UNCHANGED <<lstart, lpc>>
  /\ UNCHANGED <<g_process, lproc, lendpoint, lstop, lsig, lprior>>

\* line 53-56, 71, 234-235: stop_ollama is called, by the button or by atexit
LegacyStopCall ==
  /\ UNCHANGED notLegacy
  /\ lpc = "idle"
  /\ lstart \in {"already", "spawned", "failed"}
  /\ lprior' = (lprior \/ lstop = "terminated")
  /\ lsig' = <<>>
  /\ IF StopGuardLegacy(g_process, lproc)
       THEN lpc' = "sigterm" /\ lstop' = "pending"
       ELSE lpc' = "idle" /\ lstop' = "returned"
  /\ UNCHANGED <<g_process, lproc, lendpoint, lpolls, lstart>>

\* line 59: os.kill(ollama_process.pid, signal.SIGTERM)
LegacySigterm ==
  /\ UNCHANGED notLegacy
  /\ lpc = "sigterm"
  /\ IF KillTarget(lproc) = "nobody"
       THEN /\ lpc' = "sigkill"              \* ProcessLookupError, line 62
            /\ UNCHANGED lsig
       ELSE /\ lsig' = Append(lsig, <<"SIGTERM", KillTarget(lproc)>>)
            /\ lpc' = "wait"
  /\ UNCHANGED <<g_process, lproc, lendpoint, lpolls, lstart, lstop, lprior>>

\* line 60-61: ollama_process.wait(timeout=5); a Popen that was waited for
\* returns at once
LegacyWait ==
  /\ UNCHANGED notLegacy
  /\ lpc = "wait"
  /\ CASE lproc = "exited"  -> /\ lproc' = "reaped"
                               /\ lstop' = "terminated"
                               /\ lpc' = "idle"
       [] lproc = "running" -> /\ lpc' = "sigkill"       \* TimeoutExpired
                               /\ UNCHANGED <<lproc, lstop>>
       [] OTHER             -> /\ lstop' = "returned"
                               /\ lpc' = "idle"
                               /\ UNCHANGED lproc
  /\ UNCHANGED <<g_process, lendpoint, lpolls, lstart, lsig, lprior>>

\* line 62-68: the except clause: os.kill(ollama_process.pid, signal.SIGKILL)
\* under a bare except
LegacySigkill ==
  /\ UNCHANGED notLegacy
  /\ lpc = "sigkill"
  /\ IF KillTarget(lproc) = "nobody"
       THEN UNCHANGED <<lsig, lproc>>
       ELSE /\ lsig' = Append(lsig, <<"SIGKILL", KillTarget(lproc)>>)
            /\ lproc' = IF lproc = "running" THEN "exited" ELSE lproc
  /\ lstop' = "returned"
  /\ lpc' = "idle"
  /\ UNCHANGED <<g_process, lendpoint, lpolls, lstart, lprior>>

\* the daemon exits, by itself or on a SIGTERM
LegacyProcExit ==
  /\ UNCHANGED notLegacy
  /\ lproc = "running"
  /\ lproc' = "exited"
  /\ UNCHANGED <<g_process, lendpoint, lpc, lpolls, lstart, lstop, lsig, lprior>>

\* the operating system gives the pid of the reaped daemon to a new process
LegacyPidReuse ==
  /\ UNCHANGED notLegacy
  /\ lproc = "reaped"
  /\ lproc' = "reused"
  /\ UNCHANGED <<g_process, lendpoint, lpc, lpolls, lstart, lstop, lsig, lprior>>

LegacyEndpointChange ==
  /\ UNCHANGED notLegacy
  /\ \E e \in LegacyEndpoints \ {lendpoint} : lendpoint' = e
  /\ UNCHANGED <<g_process, lproc, lpc, lpolls, lstart, lstop, lsig, lprior>>

LNext ==
  \/ LegacyStartProbe
  \/ LegacySpawn
  \/ LegacyPoll
  \/ LegacyStopCall
  \/ LegacySigterm
  \/ LegacyWait
  \/ LegacySigkill
  \/ LegacyProcExit
  \/ LegacyPidReuse
  \/ LegacyEndpointChange

\* C28: after start_ollama spawned the daemon no stop_ollama call raises, and
\* no stop_ollama call that follows one which terminated the daemon delivers
\* a signal to any process; and stop_ollama delivers no signal when
\* start_ollama found the daemon already running.
C28_LegacyStopIdempotent ==
  /\ lstop # "raised"
  /\ (lstart = "spawned" /\ lprior) => lsig = <<>>
  /\ lstart = "already" => lsig = <<>>

(* ---------------------------------------------------------------------- *)
(* PDFQueryApp: one Streamlit session                                      *)
(* ---------------------------------------------------------------------- *)

\* names of the files the user uploads
Pdfs == {"a.pdf", "b.pdf"}

\* buttons of render_ui
Buttons == {"process", "clear", "search", "summary", "stop"}

\* what OllamaManager.start() gives the application ("raised": an exception)
StartOutcomes ==
  {"already_running", "started", "not_found", "failed_to_start", "raised"}

\* what get_vector_index / get_summary_index give the application
IndexOutcomes == {"index", "None", "raised"}

\* an operation on the catalog, the indexes or a query is called
Operation == early_ops' = (early_ops \/ ~ started_ok)

\* st.rerun(): the script starts again, no button is clicked in the new run
Rerun ==
  /\ apc' = "setup"
  /\ clicked' = "none"

\* the run is over: st.stop(), an exception, or the end of the script
EndRun ==
  /\ apc' = "idle"
  /\ clicked' = "none"

\* the user changes the file of the uploader, removes it, clicks a button
\* that the last run rendered, or asks for a rerun: a new run starts
UiEvent ==
  /\ UNCHANGED notApp
  /\ apc = "idle"
  /\ apc' = "setup"
  /\ \/ /\ \E f \in (Pdfs \cup {"none"}) \ {uploaded_file} : uploaded_file' = f
        /\ clicked' = "none"
     \/ /\ clicked' = "none"
        /\ UNCHANGED uploaded_file
     \/ /\ ollama_status_checked
        /\ \E b \in Buttons :
             /\ b = "process" => (uploaded_file # "none" /\ ~ document_processed)
             /\ b = "search" => (uploaded_file # "none" /\ document_processed
                                   /\ uploaded_filename = uploaded_file
                                   /\ vector_index)
             /\ b = "summary" => (uploaded_file # "none" /\ document_processed
                                    /\ uploaded_filename = uploaded_file
                                    /\ summary_index)
             /\ clicked' = b
        /\ UNCHANGED uploaded_file
  /\ UNCHANGED <<ollama_status_checked, installed_models, vector_index,
                 summary_index, uploaded_filename, document_processed, done,
                 started_ok, start_again, early_ops>>

\* line 62-77: setup_ollama calls start() unless the session has checked
setup_ollama ==
  /\ UNCHANGED notApp
  /\ apc = "setup"
  /\ IF ollama_status_checked
       THEN /\ apc' = "ui"
            /\ UNCHANGED <<clicked, started_ok, start_again>>
       ELSE /\ start_again' = (start_again \/ started_ok)
            /\ \E st \in StartOutcomes :
                 IF st \in {"already_running", "started"}
                   THEN /\ started_ok' = TRUE
                        /\ apc' = "models"
                        /\ UNCHANGED clicked
                   ELSE /\ EndRun                 \* st.stop(), or the exception
                        /\ UNCHANGED started_ok
  /\ UNCHANGED <<ollama_status_checked, installed_models, vector_index,
                 summary_index, uploaded_filename, document_processed,
                 uploaded_file, done, early_ops>>

\* line 79-88: the model list is fetched, the session is marked as checked
SetupModels ==
  /\ UNCHANGED notApp
  /\ apc = "models"
  /\ Operation
  /\ \E m \in {"names", "empty", "raised"} :
       IF m = "raised"
         THEN /\ EndRun
              /\ UNCHANGED <<installed_models, ollama_status_checked>>
         ELSE /\ installed_models' = (m = "names")
              /\ ollama_status_checked' = TRUE
              /\ Rerun
  /\ UNCHANGED <<vector_index, summary_index, uploaded_filename,
                 document_processed, uploaded_file, done, started_ok,
                 start_again>>

\* line 117-125: Clear All Indexed Data
RenderClear ==
  /\ UNCHANGED notApp
  /\ apc = "ui"
  /\ clicked = "clear"
  /\ Operation                                    \* clear_all_storage()
  /\ vector_index' = FALSE
  /\ summary_index' = FALSE
  /\ document_processed' = FALSE
  /\ uploaded_filename' = "none"
  /\ done' = "clear"
  /\ Rerun
  /\ UNCHANGED <<ollama_status_checked, installed_models, uploaded_file,
                 started_ok, start_again>>

\* line 129-131, 42-60: Stop Application & Clean Up deletes the session
\* state and ends the process
RenderStop ==
  /\ UNCHANGED notApp
  /\ apc = "ui"
  /\ clicked = "stop"
  /\ apc' = "exited"
  /\ clicked' = "none"
  /\ ollama_status_checked' = FALSE
  /\ installed_models' = FALSE
  /\ vector_index' = FALSE
  /\ summary_index' = FALSE
  /\ document_processed' = FALSE
  /\ uploaded_filename' = "none"
  /\ uploaded_file' = "none"
  /\ done' = "stop"
  /\ UNCHANGED <<started_ok, start_again, early_ops>>

\* line 138-139: document_processed once a file of another name is in the
\* uploader
ProcessedNow ==
  IF uploaded_filename # uploaded_file THEN FALSE ELSE document_processed

\* line 137-169: the Process button: the documents are loaded and both
\* indexes are asked for; an exception of the index builder ends the run
RenderProcess ==
  /\ UNCHANGED notApp
  /\ apc = "ui"
  /\ clicked = "process"
  /\ uploaded_file # "none"
  /\ ~ ProcessedNow
  /\ \E docs \in BOOLEAN, vec \in IndexOutcomes, sum \in IndexOutcomes :
       IF ~ docs
         THEN /\ document_processed' = FALSE         \* line 167-169
              /\ done' = "process"
              /\ Rerun
              /\ UNCHANGED <<vector_index, summary_index, uploaded_filename,
                             early_ops>>
         ELSE /\ Operation
              /\ IF vec = "raised"
                   THEN /\ document_processed' = FALSE
                        /\ done' = "aborted"
                        /\ EndRun
                        /\ UNCHANGED <<vector_index, summary_index,
                                       uploaded_filename>>
                   ELSE /\ vector_index' = (vec = "index" \/ vector_index)
                        /\ IF sum = "raised"
                             THEN /\ document_processed' = FALSE
                                  /\ done' = "aborted"
                                  /\ EndRun
                                  /\ UNCHANGED <<summary_index, uploaded_filename>>
                             ELSE /\ summary_index' = (sum = "index" \/ summary_index)
                                  /\ IF vec = "index" \/ sum = "index"
                                       THEN /\ uploaded_filename' = uploaded_file
                                            /\ document_processed' = TRUE
                                       ELSE /\ document_processed' = FALSE
                                            /\ UNCHANGED uploaded_filename
                                  /\ done' = "process"
                                  /\ Rerun
  /\ UNCHANGED <<ollama_status_checked, installed_models, uploaded_file,
                 started_ok, start_again>>

\* line 137-141, 171-209: a file is in the uploader and Process was not
\* clicked: the query sections, when the file is the processed one
RenderFile ==
  /\ UNCHANGED notApp
  /\ apc = "ui"
  /\ clicked \notin {"clear", "stop"}
  /\ uploaded_file # "none"
  /\ ~ (clicked = "process" /\ ~ ProcessedNow)
  /\ document_processed' = ProcessedNow
  /\ IF /\ ProcessedNow
        /\ \/ clicked = "search" /\ vector_index
           \/ clicked = "summary" /\ summary_index
       THEN /\ Operation                    \* the engine and query_index
            /\ \E raised \in BOOLEAN :
                 done' = IF raised THEN "aborted" ELSE "query"
       ELSE /\ done' = "file"
            /\ UNCHANGED early_ops
  /\ EndRun
  /\ UNCHANGED <<ollama_status_checked, installed_models, vector_index,
                 summary_index, uploaded_filename, uploaded_file, started_ok,
                 start_again>>

\* line 210-217: no file in the uploader
RenderNoFile ==
  /\ UNCHANGED notApp
  /\ apc = "ui"
  /\ clicked \notin {"clear", "stop"}
  /\ uploaded_file = "none"
  /\ IF uploaded_filename # "none"
       THEN /\ vector_index' = FALSE
            /\ summary_index' = FALSE
            /\ document_processed' = FALSE
            /\ uploaded_filename' = "none"
       ELSE UNCHANGED <<vector_index, summary_index, document_processed,
                        uploaded_filename>>
  /\ done' = "nofile"
  /\ EndRun
  /\ UNCHANGED <<ollama_status_checked, installed_models, uploaded_file,
                 started_ok, start_again, early_ops>>

ANext ==
  \/ UiEvent
  \/ setup_ollama
  \/ SetupModels
  \/ RenderClear
  \/ RenderStop
  \/ RenderProcess
  \/ RenderFile
  \/ RenderNoFile

\* C27: in a session no catalog, index or query operation is called before
\* a start() call has returned "already_running" or "started", and start()
\* is not called again after such a return.
C27_StartBeforeOperations ==
  /\ ~ early_ops
  /\ apc \in {"models", "ui"} => started_ok
  /\ ~ start_again

\* C30: document_processed implies that uploaded_filename is set and that an
\* index is held; and when the branch of Clear All Indexed Data or the one
\* of the empty uploader has run, no index is held and document_processed
\* is false.
C30_SessionState ==
  /\ document_processed =>
       (uploaded_filename # "none" /\ (vector_index \/ summary_index))
  /\ done \in {"clear", "nofile"} =>
       (~ vector_index /\ ~ summary_index /\ ~ document_processed)

(* ---------------------------------------------------------------------- *)
(* VectorStore                                                             *)
(* ---------------------------------------------------------------------- *)

\* number of texts the collection is let to hold
MaxTexts == 2

\* the model names a caller passes to update_embedding_model
ModelNames == {"", "llama2", "mistral"}

\* line 9, 61: no store
NoStore == [kind |-> "none", embedding_function |-> "None"]

\* line 19-22, 31-34: Chroma(persist_directory, embedding_function)
Chroma(e) == [kind |-> "chroma", embedding_function |-> e]

\* line 29: self._current_model or "llama2"; None and "" are false
DefaultModel(m) == IF m \in {"None", ""} THEN "llama2" ELSE m

\* the methods that read the store property
StoreReaders == {"store", "add_documents", "search_similar"}

\* a call is made on the idle object and goes to position p, or is over
\* at once with p = "idle"
VCall(op, arg, p) ==
  /\ vpc = "idle"
  /\ vpc' = p
  /\ vcall' = op
  /\ varg' = arg
  /\ vres' = IF p = "idle" THEN "returned" ELSE "pending"
  /\ store0' = _store
  /\ embeddings0' = _embeddings
  /\ model0' = _current_model

\* the call in progress goes on at position p, or is over with p = "idle"
VGoto(p, res) ==
  /\ vpc' = p
  /\ vres' = res
  /\ UNCHANGED <<vcall, varg, store0, embeddings0, model0>>

\* line 13-16: update_embedding_model(model_name)
update_embedding_model ==
  /\ UNCHANGED notVectorStore
  /\ \E m \in ModelNames :
       IF _current_model # m
         THEN /\ VCall("update_embedding_model", m, "update_embeddings")
              /\ _current_model' = m
         ELSE /\ VCall("update_embedding_model", m, "idle")
              /\ UNCHANGED _current_model
  /\ UNCHANGED <<_store, _embeddings, collection>>

\* line 17: OllamaEmbeddings(model=model_name), or its exception
UpdateEmbeddings ==
  /\ UNCHANGED notVectorStore
  /\ vpc = "update_embeddings"
  /\ \/ /\ _embeddings' = _current_model
        /\ VGoto("update_store", "pending")
     \/ /\ VGoto("idle", "raised")
        /\ UNCHANGED _embeddings
  /\ UNCHANGED <<_store, _current_model, collection>>

\* line 19-22: Chroma(...) with the new embeddings, or its exception
UpdateStore ==
  /\ UNCHANGED notVectorStore
  /\ vpc = "update_store"
  /\ \/ /\ _store' = Chroma(_embeddings)
        /\ VGoto("idle", "returned")
     \/ /\ VGoto("idle", "raised")
        /\ UNCHANGED _store
  /\ UNCHANGED <<_embeddings, _current_model, collection>>

\* line 24-27, 43, 55: the store property is read, by the caller or by
\* add_documents or search_similar
store ==
  /\ UNCHANGED notVectorStore
  /\ \E op \in StoreReaders :
       VCall(op, "None", IF _store = NoStore THEN "store_embeddings" ELSE "use")
  /\ UNCHANGED <<_store, _embeddings, _current_model, collection>>

\* line 29-30
StoreEmbeddings ==
  /\ UNCHANGED notVectorStore
  /\ vpc = "store_embeddings"
  /\ \/ /\ _embeddings' = DefaultModel(_current_model)
        /\ VGoto("store_chroma", "pending")
     \/ /\ VGoto("idle", "raised")
        /\ UNCHANGED _embeddings
  /\ UNCHANGED <<_store, _current_model, collection>>

\* line 31-35
StoreChroma ==
  /\ UNCHANGED notVectorStore
  /\ vpc = "store_chroma"
  /\ \/ /\ _store' = Chroma(_embeddings)
        /\ VGoto("use", "pending")
     \/ /\ VGoto("idle", "raised")
        /\ UNCHANGED _store
  /\ UNCHANGED <<_embeddings, _current_model, collection>>

\* line 35: the caller has the store
StoreReturn ==
  /\ UNCHANGED notVectorStore
  /\ vpc = "use"
  /\ vcall = "store"
  /\ VGoto("idle", "returned")
  /\ UNCHANGED <<_store, _embeddings, _current_model, collection>>

\* line 40-51: add_texts and persist, or the exception of one of them
add_documents ==
  /\ UNCHANGED notVectorStore
  /\ vpc = "use"
  /\ vcall = "add_documents"
  /\ \/ /\ \E n \in 0..(MaxTexts - collection) : collection' = collection + n
        /\ VGoto("idle", "returned")
     \/ /\ VGoto("idle", "raised")
        /\ UNCHANGED collection
  /\ UNCHANGED <<_store, _embeddings, _current_model>>

\* line 55: similarity_search, or its exception
search_similar ==
  /\ UNCHANGED notVectorStore
  /\ vpc = "use"
  /\ vcall = "search_similar"
  /\ \E res \in {"returned", "raised"} : VGoto("idle", res)
  /\ UNCHANGED <<_store, _embeddings, _current_model, collection>>

\* line 57-59: clear()
clear ==
  /\ UNCHANGED notVectorStore
  /\ VCall("clear", "None", IF _store # NoStore THEN "clear_delete" ELSE "idle")
  /\ UNCHANGED <<_store, _embeddings, _current_model, collection>>

\* line 60-63: delete_collection() and the three fields, or the exception
\* of delete_collection()
ClearDelete ==
  /\ UNCHANGED notVectorStore
  /\ vpc = "clear_delete"
  /\ \/ /\ collection' = 0
        /\ _store' = NoStore
        /\ _embeddings' = "None"
        /\ _current_model' = "None"
        /\ VGoto("idle", "returned")
     \/ /\ VGoto("idle", "raised")
        /\ UNCHANGED <<_store, _embeddings, _current_model, collection>>

VNext ==
  \/ update_embedding_model
  \/ UpdateEmbeddings
  \/ UpdateStore
  \/ store
  \/ StoreEmbeddings
  \/ StoreChroma
  \/ StoreReturn
  \/ add_documents
  \/ search_similar
  \/ clear
  \/ ClearDelete

\* the store is initialised, its embeddings are the ones of the object and
\* were created for the selected model, "llama2" if none is selected
StoreMatchesModel ==
  _store # NoStore =>
    /\ _embeddings # "None"
    /\ _store.embedding_function = _embeddings
    /\ _embeddings = (IF _current_model = "None" THEN "llama2"
                                                  ELSE _current_model)

\* update_embedding_model with the selected model changes nothing
SameModelNoChange ==
  (vcall = "update_embedding_model" /\ varg = model0) =>
    (vres = "returned" /\ _store = store0 /\ _embeddings = embeddings0
       /\ _current_model = model0)

\* clear() that returns on an initialised store unsets the three fields
ClearUnsetsAll ==
  (vcall = "clear" /\ vres = "returned" /\ store0 # NoStore) =>
    (_store = NoStore /\ _embeddings = "None" /\ _current_model = "None")

\* C31: between two calls on a VectorStore, an initialised store goes with
\* initialised embeddings created for the selected model ("llama2" when no
\* model is selected); update_embedding_model with the selected model
\* leaves the store and the embeddings as they were; after clear() on an
\* initialised store the store, the embeddings and the selected model are
\* unset.
C31_StoreFollowsModel ==
  vpc = "idle" => (StoreMatchesModel /\ SameModelNoChange /\ ClearUnsetsAll)

\* the components right after construction, the legacy script before its run
Init ==
  /\ ollama_process = 0
  /\ atexit_registered = FALSE
  /\ hooks = 0
  /\ spawnErr = "none"
  /\ proc = [p \in Pids |-> "unspawned"]
  /\ child = [p \in Pids |-> "none"]
  /\ endpoint = "down"
  /\ pc = "idle"
  /\ caller = "none"
  /\ polls = 0
  /\ spawned = 0
  /\ handle0 = 0
  /\ status = "none"
  /\ stopRes = "none"
  /\ modelsRes = "none"
  /\ sigLog = <<>>
  /\ priorOK = FALSE
  /\ disk = [n \in Names |-> [f \in Files |-> Absent]]
  /\ ipc = [c \in Callers |-> "idle"]
  /\ iname = [c \in Callers |-> "vector_index"]
  /\ todo = [c \in Callers |-> <<>>]
  /\ mem = [c \in Callers |-> NoIndex]
  /\ written = [c \in Callers |-> {}]
  /\ result = [c \in Callers |-> "none"]
  /\ embeds = 0
  /\ hasdocs = [c \in Callers |-> FALSE]
  /\ failedAt = [c \in Callers |-> "none"]
  /\ root = TRUE
  /\ qpc = "idle"
  /\ qcall = "none"
  /\ qindex = FALSE
  /\ topK = 1
  /\ widen = FALSE
  /\ tried = <<>>
  /\ retriever = 0
  /\ engine = NoEngine
  /\ engineRes = "none"
  /\ qengine = NoEngine
  /\ qtext = <<>>
  /\ backend = <<>>
  /\ answer = "none"
  /\ g_process = 0
  /\ lproc = "unspawned"
  /\ lendpoint = "refused"
  /\ lpc = "idle"
  /\ lpolls = 0
  /\ lstart = "none"
  /\ lstop = "none"
  /\ lsig = <<>>
  /\ lprior = FALSE
  /\ apc = "idle"
  /\ ollama_status_checked = FALSE
  /\ installed_models = FALSE
  /\ vector_index = FALSE
  /\ summary_index = FALSE
  /\ uploaded_filename = "none"
  /\ document_processed = FALSE
  /\ uploaded_file = "none"
  /\ clicked = "none"
  /\ done = "none"
  /\ started_ok = FALSE
  /\ start_again = FALSE
  /\ early_ops = FALSE
  /\ _store = NoStore
  /\ _embeddings = "None"
  /\ _current_model = "None"
  /\ collection = 0
  /\ vpc = "idle"
  /\ vcall = "none"
  /\ varg = "None"
  /\ vres = "none"
  /\ store0 = NoStore
  /\ embeddings0 = "None"
  /\ model0 = "None"

SpecManager == Init /\ [][MNext]_vars

SpecIndex == Init /\ [][INext]_vars

SpecIndexSeq == Init /\ [][SeqNext]_vars

SpecQuery == Init /\ [][QNext]_vars

SpecLegacy == Init /\ [][LNext]_vars

SpecApp == Init /\ [][ANext]_vars

SpecVectorStore == Init /\ [][VNext]_vars

====
